---------------------------- MODULE Spec2Model ----------------------------
(***************************************************************************)
(* GEF-CPT -> Downhole Collection -> columnar geoscience object.           *)
(*                                                                         *)
(* Batch assembly (parse_gef_files), the direct converter of               *)
(* gef_to_downhole_collection.py (create_downhole_collection and its       *)
(* create_dc_* helpers), the DownholeCollection container and the          *)
(* exporter DownholeCollectionToGeoscienceObject are modelled from the     *)
(* sources.  The builder create_from_parsed_gef_cpts and its helpers are   *)
(* only known through their tests and the specification; they are          *)
(* modelled from the specification (sections 4.1 - 4.3).                   *)
(*                                                                         *)
(* Tables are sequences of rows, a row is a sequence of cell values in     *)
(* column order, column names are kept in a parallel sequence.  Strings    *)
(* that the code splits or parses are sequences of one-character strings.  *)
(***************************************************************************)
EXTENDS Integers, Sequences, FiniteSets, TLC

VARIABLES
    pc,       \* position of the run: parsing, parsed, built, converted, exported, failed
    op,       \* name of the last operation that acted
    data,     \* parse_gef_files: the ordered mapping id -> CPTData built so far
    err,      \* the exception that ended the run, or "none"
    dc,       \* the DownholeCollection (collars, measurements, name, epsg_code)
    via,      \* how dc came to be: "none", "batch" (builder), "direct" (constructor)
    go,       \* the geoscience object made by the direct converter or by the exporter
    saves,    \* data_client.save_table calls issued so far, in order
    holes,    \* last result of DownholeCollectionToGeoscienceObject.holes_table()
    srs_in,   \* EPSG extraction: the srs_name handed in
    crs_out,  \* EPSG extraction: the outcome
    out       \* what the last method called on dc or on the exporter returned

vars == <<pc, op, data, err, dc, via, go, saves, holes, srs_in, crs_out, out>>

---------------------------------------------------------------------------
(* Bounds of the model *)

\* most collars of a directly constructed collection, and its largest hole_index
MaxCollars == 3
\* most rows in one hole's source table
MaxRows == 2
\* most rows of a directly constructed Measurements table
MaxMeas == 4
\* longest srs_name string that EPSG extraction is tried on
MaxSrsLen == 3

---------------------------------------------------------------------------
(* Generic sequence helpers *)

RECURSIVE SeqSum(_)
SeqSum(s) == IF s = <<>> THEN 0 ELSE s[1] + SeqSum(Tail(s))

RECURSIVE Flatten(_)
Flatten(ss) == IF ss = <<>> THEN <<>> ELSE ss[1] \o Flatten(Tail(ss))

RECURSIVE SeqsUpTo(_, _)
\* all sequences over S of length at most n
SeqsUpTo(S, n) ==
    IF n = 0 THEN {<<>>}
    ELSE LET shorter == SeqsUpTo(S, n - 1)
         IN  shorter \cup {Append(s, x) : s \in shorter, x \in S}

Range(s) == {s[i] : i \in 1..Len(s)}

\* index of the first occurrence of x in s, 0 when absent
RECURSIVE IndexOf(_, _)
IndexOf(s, x) ==
    IF s = <<>> THEN 0
    ELSE IF s[1] = x THEN 1
         ELSE LET r == IndexOf(Tail(s), x) IN IF r = 0 THEN 0 ELSE r + 1

SeqMax(s) == CHOOSE m \in Range(s) : \A v \in Range(s) : v <= m
SeqMin(s) == CHOOSE m \in Range(s) : \A v \in Range(s) : m <= v

---------------------------------------------------------------------------
(* Sentinels.  An optional number is <<>> (attribute missing or None) or <<v>>. *)

NoDc == [none |-> TRUE]
NoGo == [none |-> TRUE]
NoOut == [none |-> TRUE]

HOLE_INDEX == "hole_index"
PEN == "penetrationLength"
CONE == "coneResistance"

---------------------------------------------------------------------------
(* Input records: pygef CPTData as the converters read it.                 *)
(*   bro_id, alias  identifiers ("" when missing or empty)                 *)
(*   srs_name       delivered_location.srs_name: a string, None or absent  *)
(*   x, y           delivered_location.x / .y, <<>> when absent            *)
(*   z              delivered_vertical_position_offset, <<>> when None     *)
(*   cols, rows     the data table                                         *)

Str(s) == [kind |-> "str", s |-> s]
SrsNone == [kind |-> "none", s |-> <<>>]
SrsAbsent == [kind |-> "absent", s |-> <<>>]

Chars == {"1", "2", ":", "E"}
Digits == {"1", "2"}
DigitVal(c) == IF c = "1" THEN 1 ELSE 2

IdSeq == <<"A", "B", "C">>
Ids == Range(IdSeq)
\* the value a source table carries in a hole_index column of its own
SourceIndex == 99

DefaultCols == <<PEN, CONE>>
ColsWithIndex == <<PEN, HOLE_INDEX, CONE>>
\* a source row: the cone resistance is a function of the depth, so that rows
\* are told apart by their depth alone
SourceRow(cols, pl) ==
    [i \in 1..Len(cols) |->
        IF cols[i] = PEN THEN pl
        ELSE IF cols[i] = HOLE_INDEX THEN SourceIndex
        ELSE pl + 10]

BaseCpt(id) ==
    [bro_id |-> "", alias |-> id,
     srs_name |-> Str(<<"E", ":", "1">>),
     x |-> <<100>>, y |-> <<500>>, z |-> <<>>,
     final_depth |-> 10, predrilled_depth |-> 0,
     cols |-> DefaultCols, rows |-> <<SourceRow(DefaultCols, 1)>>]

\* a batch holds at most one record per identifier of Ids: parse_gef_files
\* rejects a repeated identifier

\* depths 1..n, ascending or descending
Depths(n, ascending) == [j \in 1..n |-> IF ascending THEN j ELSE n + 1 - j]

WithTable(id, cols, depths) ==
    [BaseCpt(id) EXCEPT !.cols = cols,
                        !.rows = [j \in 1..Len(depths) |-> SourceRow(cols, depths[j])]]

\* records that differ in their table: any row count up to MaxRows, in either
\* order of depth, and one table with a hole_index column of its own
DataVariants(id) ==
    {WithTable(id, DefaultCols, Depths(n, asc)) : n \in 0..MaxRows, asc \in BOOLEAN}
        \cup {WithTable(id, ColsWithIndex, Depths(2, FALSE))}

\* records that differ in their spatial reference: the first identifier may
\* come without one, the second with another code
SrsSamples == {Str(<<"E", ":", "2">>), SrsAbsent}
SrsVariants(id) ==
    {[BaseCpt(id) EXCEPT !.srs_name = s] :
        s \in {t \in SrsSamples : (id = IdSeq[1] /\ t = SrsAbsent)
                                     \/ (id = IdSeq[2] /\ t # SrsAbsent)}}

\* records that differ in how they are identified
IdVariants(id) ==
    {[BaseCpt(id) EXCEPT !.bro_id = id, !.alias = "Z"],
     [BaseCpt(id) EXCEPT !.alias = ""]}

\* records whose final depth was not supplied (0): no row, or rows of which
\* the deepest is not the last and one lies above the surface
FinalDepthVariants(id) ==
    {[WithTable(id, DefaultCols, d) EXCEPT !.final_depth = 0] :
        d \in {t \in {<<>>, <<2, -1>>} : (id = IdSeq[1] /\ t # <<>>)
                                           \/ (id = IdSeq[2] /\ t = <<>>)}}

\* records whose location lacks x or y, and one that lies elsewhere
LocationVariants(id) ==
    IF id = IdSeq[1] THEN {[BaseCpt(id) EXCEPT !.x = <<>>]}
    ELSE IF id = IdSeq[2] THEN {[BaseCpt(id) EXCEPT !.y = <<>>]}
    ELSE {[BaseCpt(id) EXCEPT !.x = <<300>>, !.y = <<200>>, !.z = <<5>>]}

\* a record whose table lacks a required column
NoConeCpt(id) ==
    [BaseCpt(id) EXCEPT !.cols = <<PEN>>, !.rows = <<<<1>>>>]

CptRecords ==
    UNION {DataVariants(id) \cup SrsVariants(id) \cup IdVariants(id) \cup {NoConeCpt(id)}
               \cup FinalDepthVariants(id) \cup LocationVariants(id) :
           id \in Ids}

---------------------------------------------------------------------------
(* parse_gef_files.py *)

\* get_gef_cpt_id: bro_id when set, else alias when set, else ValueError
get_gef_cpt_id(gef) ==
    IF gef.bro_id # "" THEN [exc |-> "none", id |-> gef.bro_id]
    ELSE IF gef.alias # "" THEN [exc |-> "none", id |-> gef.alias]
    ELSE [exc |-> "ValueError", id |-> ""]

\* check_for_required_columns: the names of the required columns that are missing
check_for_required_columns(cpt_data) ==
    SelectSeq(<<PEN, CONE>>, LAMBDA col : col \notin Range(cpt_data.cols))

Keys(d) == [i \in 1..Len(d) |-> d[i].key]
Values(d) == [i \in 1..Len(d) |-> d[i].cpt]

\* (mutant) data[cpt_id] = cpt_data without the check for an identifier
\* already stored: the later record takes the earlier one's place
parse_gef_files_step_overwrite(d, cpt_data) ==
    IF check_for_required_columns(cpt_data) # <<>>
    THEN [exc |-> "ValueError", data |-> d]
    ELSE LET cpt_id == get_gef_cpt_id(cpt_data) IN
         IF cpt_id.exc # "none" THEN [exc |-> cpt_id.exc, data |-> d]
         ELSE IF cpt_id.id \in Range(Keys(d))
              THEN [exc |-> "none",
                    data |-> [k \in 1..Len(d) |->
                                 IF d[k].key = cpt_id.id
                                 THEN [key |-> cpt_id.id, cpt |-> cpt_data] ELSE d[k]]]
         ELSE [exc |-> "none", data |-> Append(d, [key |-> cpt_id.id, cpt |-> cpt_data])]

\* one pass of the loops of parse_gef_files over the next record read:
\* the exception raised ("none" when the record is stored) and the mapping after it
parse_gef_files_step(d, cpt_data) ==
    IF check_for_required_columns(cpt_data) # <<>>
    THEN [exc |-> "ValueError", data |-> d]
    ELSE LET cpt_id == get_gef_cpt_id(cpt_data) IN
         IF cpt_id.exc # "none" THEN [exc |-> cpt_id.exc, data |-> d]
         ELSE IF cpt_id.id \in Range(Keys(d)) THEN [exc |-> "ValueError", data |-> d]
         ELSE [exc |-> "none", data |-> Append(d, [key |-> cpt_id.id, cpt |-> cpt_data])]

\* A file as parse_gef_file meets it: whether it exists, its suffix, the
\* exception pygef raises on reading it ("none" when it reads) and the records
\* pygef returns
GefFile(exists, suffix, raises, cpts) ==
    [exists |-> exists, suffix |-> suffix, raises |-> raises, cpts |-> cpts]

\* Path(filepath).suffix.lower() on the suffixes the model uses
suffix_lower(suffix) ==
    CASE suffix = ".GEF" -> ".gef"
      [] suffix = ".XML" -> ".xml"
      [] OTHER -> suffix

\* parse_gef_file: the exception raised ("none" when it returns) and the
\* records returned
parse_gef_file(file) ==
    LET ext == suffix_lower(file.suffix)
        missing == \E k \in 1..Len(file.cpts) :
                       check_for_required_columns(file.cpts[k]) # <<>>
        Raise(exc) == [exc |-> exc, cpts |-> <<>>]
    IN
    IF ~file.exists THEN Raise("FileNotFoundError")
    ELSE IF ext = ".xml"
         THEN IF file.raises # "none" THEN Raise("ValueError")
              ELSE IF missing THEN Raise("ValueError")
              ELSE [exc |-> "none", cpts |-> file.cpts]
    ELSE IF ext = ".gef"
         THEN IF file.raises \in {"ValueError", "FileNotFoundError"} THEN Raise(file.raises)
              ELSE IF file.raises # "none" THEN Raise("RuntimeError")
              ELSE IF missing THEN Raise("ValueError")
              ELSE [exc |-> "none", cpts |-> file.cpts]
    ELSE Raise("ValueError")

\* the inner loop of parse_gef_files over the records of one file, from record j
RECURSIVE file_result_loop(_, _, _)
file_result_loop(d, file_result, j) ==
    IF j > Len(file_result) THEN [exc |-> "none", data |-> d]
    ELSE LET r == parse_gef_files_step(d, file_result[j]) IN
         IF r.exc # "none" THEN r
         ELSE file_result_loop(r.data, file_result, j + 1)

\* the outer loop of parse_gef_files, from file i
RECURSIVE filepaths_loop(_, _, _)
filepaths_loop(d, filepaths, i) ==
    IF i > Len(filepaths) THEN [exc |-> "none", data |-> d]
    ELSE LET file_result == parse_gef_file(filepaths[i]) IN
         IF file_result.exc # "none" THEN [exc |-> file_result.exc, data |-> <<>>]
         ELSE LET r == file_result_loop(d, file_result.cpts, 1) IN
              IF r.exc # "none" THEN [exc |-> r.exc, data |-> <<>>]
              ELSE filepaths_loop(r.data, filepaths, i + 1)

\* parse_gef_files: the exception raised ("none" when it returns) and the
\* mapping returned
parse_gef_files(filepaths) == filepaths_loop(<<>>, filepaths, 1)

\* utils.is_gef_cpt: the exception that escapes it ("none" when it returns) and
\* the boolean returned
is_gef_cpt(file) ==
    LET r == parse_gef_file(file) IN
    IF r.exc = "none" THEN [exc |-> "none", value |-> <<r.cpts # <<>>>>]
    ELSE IF r.exc \in {"ValueError", "FileNotFoundError"}
         THEN [exc |-> "none", value |-> <<FALSE>>]
    ELSE [exc |-> r.exc, value |-> <<>>]

---------------------------------------------------------------------------
(* EPSG extraction *)

\* s.split(":")[-1]: what follows the last ":", the whole string when there is none
RECURSIVE LastToken(_)
LastToken(s) ==
    IF s = <<>> THEN <<>>
    ELSE IF s[Len(s)] = ":" THEN <<>>
         ELSE Append(LastToken(SubSeq(s, 1, Len(s) - 1)), s[Len(s)])

\* int(token) succeeds: a non-empty run of decimal digits
IsIntLiteral(tok) == tok # <<>> /\ \A i \in 1..Len(tok) : tok[i] \in Digits

RECURSIVE IntOf(_)
IntOf(tok) ==
    IF tok = <<>> THEN 0
    ELSE 10 * IntOf(SubSeq(tok, 1, Len(tok) - 1)) + DigitVal(tok[Len(tok)])

Raised(e) == [exc |-> e, epsg_code |-> 0]

\* an AttributeError raised while handling an AttributeError: the handler builds
\* its message from delivered_location.srs_name, which it reads again
create_coordinate_reference_system_handler(srs_name) ==
    IF srs_name.kind = "absent" THEN Raised("AttributeError") ELSE Raised("ValueError")

\* gef_to_downhole_collection.create_coordinate_reference_system
create_coordinate_reference_system(cpt_data) ==
    LET srs_name == cpt_data.srs_name IN
    IF srs_name.kind # "str"
    THEN create_coordinate_reference_system_handler(srs_name)
    ELSE LET tok == LastToken(srs_name.s) IN
         IF IsIntLiteral(tok) THEN [exc |-> "none", epsg_code |-> IntOf(tok)]
         ELSE Raised("ValueError")

\* _extract_epsg_code, from the specification (4.1): InvalidSpatialReference
\* (a ValueError) when srs_name is absent, has no ":" or ends in a non-integer
extract_epsg_code(cpt_data) ==
    LET srs_name == cpt_data.srs_name IN
    IF srs_name.kind # "str" THEN Raised("ValueError")
    ELSE IF ":" \notin Range(srs_name.s) THEN Raised("ValueError")
    ELSE LET tok == LastToken(srs_name.s) IN
         IF IsIntLiteral(tok) THEN [exc |-> "none", epsg_code |-> IntOf(tok)]
         ELSE Raised("ValueError")

---------------------------------------------------------------------------
(* The builder create_from_parsed_gef_cpts, from the specification          *)
(* (4.1 Hole Identity & Validation, 4.2 Collar Table Builder,               *)
(* 4.3 Measurement Concatenator).                                           *)

Column(cols, rows, name) ==
    LET c == IndexOf(cols, name) IN [r \in 1..Len(rows) |-> rows[r][c]]

\* 4.1: x and y must be present
validate_location_attributes(cpt_data) ==
    IF cpt_data.x = <<>> \/ cpt_data.y = <<>> THEN "MissingLocation" ELSE "none"

\* 4.1: the supplied final depth when nonzero, else the maximum of penetrationLength
calculate_final_depth(cpt_data) ==
    IF cpt_data.final_depth # 0 THEN [exc |-> "none", final_depth |-> cpt_data.final_depth]
    ELSE IF PEN \notin Range(cpt_data.cols) THEN [exc |-> "MissingPrimaryAxis", final_depth |-> 0]
    ELSE IF cpt_data.rows = <<>> THEN [exc |-> "EmptyPrimaryAxis", final_depth |-> 0]
    ELSE [exc |-> "none",
          final_depth |-> SeqMax(Column(cpt_data.cols, cpt_data.rows, PEN))]

\* 4.1: the failure of record k of the batch, "none" when it passes every check
\* (checked in the order of the section: EPSG, consistency, location, final depth)
record_error(d, k) ==
    LET cpt_data == d[k].cpt IN
    IF extract_epsg_code(cpt_data).exc # "none" THEN "InvalidSpatialReference"
    ELSE IF extract_epsg_code(cpt_data).epsg_code # extract_epsg_code(d[1].cpt).epsg_code
         THEN "InconsistentSpatialReference"
    ELSE IF validate_location_attributes(cpt_data) # "none"
         THEN validate_location_attributes(cpt_data)
    ELSE calculate_final_depth(cpt_data).exc

\* 4.2: one collar per hole
collar_row(hole_index, hole_id, cpt_data) ==
    [hole_index |-> hole_index,
     hole_id |-> hole_id,
     x |-> cpt_data.x[1],
     y |-> cpt_data.y[1],
     z |-> IF cpt_data.z = <<>> THEN 0 ELSE cpt_data.z[1],
     final_depth |-> calculate_final_depth(cpt_data).final_depth]

\* (mutant) hole_index counted from 0
build_collars_zero_based(d) ==
    [k \in 1..Len(d) |-> collar_row(k - 1, d[k].key, d[k].cpt)]

\* 4.2: hole_index is the 1-based position in iteration order
build_collars(d) == [k \in 1..Len(d) |-> collar_row(k, d[k].key, d[k].cpt)]

\* (mutant) hole_index put in front without dropping the source's own
measurement_columns_prepend(cols) == <<HOLE_INDEX>> \o cols

\* 4.3: hole_index first, then the source columns but hole_index, in their order
measurement_columns(cols) ==
    <<HOLE_INDEX>> \o SelectSeq(cols, LAMBDA c : c # HOLE_INDEX)

\* 4.3: a source row with the assigned index in front and its own index dropped
tag_row(hole_index, cols, row) ==
    LET kept == SelectSeq([i \in 1..Len(cols) |-> i], LAMBDA i : cols[i] # HOLE_INDEX)
    IN  <<hole_index>> \o [j \in 1..Len(kept) |-> row[kept[j]]]

\* (mutant) rows tagged with the hole after the one they belong to
tag_rows_next_hole(hole_index, cpt_data) ==
    [r \in 1..Len(cpt_data.rows) |->
        tag_row(hole_index + 1, cpt_data.cols, cpt_data.rows[r])]

tag_rows(hole_index, cpt_data) ==
    [r \in 1..Len(cpt_data.rows) |-> tag_row(hole_index, cpt_data.cols, cpt_data.rows[r])]

\* (mutant) the per-hole tables concatenated last hole first
concat_measurements_reversed(d) ==
    Flatten([k \in 1..Len(d) |-> tag_rows(Len(d) + 1 - k, d[Len(d) + 1 - k].cpt)])

\* 4.3: the per-hole tables one under the other, in hole order
concat_measurements(d) == Flatten([k \in 1..Len(d) |-> tag_rows(k, d[k].cpt)])

\* get_collection_name_from_collars: "", the hole id, or "<first>...<last>"
get_collection_name_from_collars(collars) ==
    IF Len(collars) = 0 THEN <<>>
    ELSE IF Len(collars) = 1 THEN <<collars[1].hole_id>>
    ELSE <<collars[1].hole_id, "...", collars[Len(collars)].hole_id>>

create_from_parsed_gef_cpts(d) ==
    IF d = <<>> THEN [exc |-> "EmptyBatch", dc |-> NoDc]
    ELSE LET failing == {k \in 1..Len(d) : record_error(d, k) # "none"} IN
         IF failing # {}
         THEN [exc |-> record_error(d, CHOOSE k \in failing : \A j \in failing : k <= j),
               dc |-> NoDc]
         ELSE [exc |-> "none",
               dc |-> [collars |-> build_collars(d),
                       mcols |-> measurement_columns(d[1].cpt.cols),
                       measurements |-> concat_measurements(d),
                       name |-> get_collection_name_from_collars(build_collars(d)),
                       epsg_code |-> extract_epsg_code(d[1].cpt).epsg_code]]

\* the errors of the builder are all ValueErrors
ValueErrors ==
    {"ValueError", "EmptyBatch", "InvalidSpatialReference", "InconsistentSpatialReference",
     "MissingLocation", "MissingPrimaryAxis", "EmptyPrimaryAxis"}

---------------------------------------------------------------------------
(* gef_to_downhole_collection.py: the direct converter *)

AZIMUTH == 0
DIP == 90

Save(table, name) == [table |-> table, name |-> name]

\* create_bounding_box: AttributeError when a location lacks x or y
create_bounding_box(parsed_cpt_files) ==
    LET cpts == Values(parsed_cpt_files) IN
    IF \E k \in 1..Len(cpts) : cpts[k].x = <<>> \/ cpts[k].y = <<>>
    THEN [exc |-> "AttributeError", box |-> <<>>]
    ELSE LET x_values == [k \in 1..Len(cpts) |-> cpts[k].x[1]]
             y_values == [k \in 1..Len(cpts) |-> cpts[k].y[1]]
             z_values == [k \in 1..Len(cpts) |->
                             IF cpts[k].z = <<>> THEN 0 ELSE cpts[k].z[1]]
         IN  [exc |-> "none",
              box |-> <<SeqMin(x_values), SeqMax(x_values), SeqMin(y_values),
                        SeqMax(y_values), SeqMin(z_values), SeqMax(z_values)>>]

create_dc_location_coordinates(parsed_cpt_files) ==
    LET cpts == Values(parsed_cpt_files) IN
    [k \in 1..Len(cpts) |->
        <<cpts[k].x[1], cpts[k].y[1], IF cpts[k].z = <<>> THEN 0 ELSE cpts[k].z[1]>>]

\* final, target, current: current is the predrilled depth
create_dc_location_distances(parsed_cpt_files) ==
    LET cpts == Values(parsed_cpt_files) IN
    [k \in 1..Len(cpts) |->
        <<cpts[k].final_depth, cpts[k].final_depth, cpts[k].predrilled_depth>>]

\* the loop of create_dc_hole_chunks from hole `hole_index` on
RECURSIVE hole_chunks_loop(_, _, _)
hole_chunks_loop(cpts, hole_index, current_offset) ==
    IF hole_index > Len(cpts) THEN <<>>
    ELSE LET count == Len(cpts[hole_index].rows) IN
         <<[hole_index |-> hole_index, offset |-> current_offset, count |-> count]>>
             \o hole_chunks_loop(cpts, hole_index + 1, current_offset + count)

create_dc_hole_chunks(parsed_cpt_files) ==
    hole_chunks_loop(Values(parsed_cpt_files), 1, 0)

\* the lookup table (key, value) and the integer array of the keys
create_dc_location_hole_id(parsed_cpt_files) ==
    [table |-> [k \in 1..Len(parsed_cpt_files) |->
                   [key |-> k, value |-> Keys(parsed_cpt_files)[k]]],
     values |-> [k \in 1..Len(parsed_cpt_files) |-> k]]

\* every table must have the column: polars raises ColumnNotFoundError otherwise
HasColumn(parsed_cpt_files, name) ==
    \A k \in 1..Len(parsed_cpt_files) : name \in Range(parsed_cpt_files[k].cpt.cols)

\* the named column of every hole, one hole after the other
ConcatColumn(parsed_cpt_files, name) ==
    Flatten([k \in 1..Len(parsed_cpt_files) |->
                Column(parsed_cpt_files[k].cpt.cols, parsed_cpt_files[k].cpt.rows, name)])

create_dc_location_path(parsed_cpt_files) ==
    LET distances == ConcatColumn(parsed_cpt_files, PEN) IN
    [r \in 1..Len(distances) |-> <<distances[r], AZIMUTH, DIP>>]

\* create_dc_collection_distance: the columns of the first table after its first
attribute_columns(parsed_cpt_files) == Tail(parsed_cpt_files[1].cpt.cols)

create_continuous_attribute_component(key, parsed_cpt_files) ==
    [key |-> key, name |-> key, values |-> ConcatColumn(parsed_cpt_files, key)]

LocationSaves ==
    <<Save("coordinates", ""), Save("distances", ""), Save("holes", ""),
      Save("hole_id.table", ""), Save("hole_id.values", "")>>

\* create_downhole_collection past its check for an empty mapping
convert_parsed_cpt_files(parsed_cpt_files) ==
    LET crs == create_coordinate_reference_system(parsed_cpt_files[1].cpt)
        bounding_box == create_bounding_box(parsed_cpt_files)
        attrs == attribute_columns(parsed_cpt_files)
        bad == {i \in 1..Len(attrs) : ~HasColumn(parsed_cpt_files, attrs[i])}
        first_bad == CHOOSE i \in bad : \A j \in bad : i <= j
        attr_saves(n) == [i \in 1..n |-> Save("attribute", attrs[i])]
        up_to_values == LocationSaves \o <<Save("path", ""), Save("collections.values", "")>>
    IN
    IF crs.exc # "none" THEN [exc |-> crs.exc, go |-> NoGo, saves |-> <<>>]
    ELSE IF bounding_box.exc # "none"
         THEN [exc |-> bounding_box.exc, go |-> NoGo, saves |-> <<>>]
    ELSE IF ~HasColumn(parsed_cpt_files, PEN)
         THEN [exc |-> "ColumnNotFoundError", go |-> NoGo, saves |-> LocationSaves]
    ELSE IF bad # {}
         THEN [exc |-> "ColumnNotFoundError", go |-> NoGo,
               saves |-> up_to_values \o attr_saves(first_bad - 1)]
    ELSE [exc |-> "none",
          saves |-> up_to_values \o attr_saves(Len(attrs))
                        \o <<Save("collections.holes", "")>>,
          go |-> [name |-> <<"GEF-CPT Data Converter">>,
                  epsg_code |-> crs.epsg_code,
                  bounding_box |-> bounding_box.box,
                  coordinates |-> create_dc_location_coordinates(parsed_cpt_files),
                  distances |-> create_dc_location_distances(parsed_cpt_files),
                  holes |-> create_dc_hole_chunks(parsed_cpt_files),
                  hole_id |-> create_dc_location_hole_id(parsed_cpt_files),
                  path |-> create_dc_location_path(parsed_cpt_files),
                  collection_values |-> ConcatColumn(parsed_cpt_files, PEN),
                  attributes |-> [i \in 1..Len(attrs) |->
                      create_continuous_attribute_component(attrs[i], parsed_cpt_files)],
                  collection_holes |-> create_dc_hole_chunks(parsed_cpt_files)]]

\* (mutant) the empty mapping noticed only after the location tables were saved
create_downhole_collection_late_check(parsed_cpt_files) ==
    IF parsed_cpt_files = <<>>
    THEN [exc |-> "ValueError", go |-> NoGo, saves |-> LocationSaves]
    ELSE convert_parsed_cpt_files(parsed_cpt_files)

\* create_downhole_collection: the exception raised ("none" when it returns),
\* the object returned and the save_table calls issued, in order
create_downhole_collection(parsed_cpt_files) ==
    IF parsed_cpt_files = <<>>
    THEN [exc |-> "ValueError", go |-> NoGo, saves |-> <<>>]
    ELSE convert_parsed_cpt_files(parsed_cpt_files)

---------------------------------------------------------------------------
(* downhole_collection.py / downhole_collection_to_go.py *)

\* the dataclass: any collars and measurements may be handed to its constructor
DownholeCollection(collars, mcols, measurements, name, epsg_code) ==
    [collars |-> collars, mcols |-> mcols, measurements |-> measurements,
     name |-> name, epsg_code |-> epsg_code]

\* the elements of a set of integers in ascending order
RECURSIVE Ascending(_)
Ascending(S) ==
    IF S = {} THEN <<>>
    ELSE LET m == CHOOSE x \in S : \A y \in S : x <= y
         IN  <<m>> \o Ascending(S \ {m})

\* (mutant) groupby with sort=True: the distinct keys in ascending order
FirstSeen_sorted(keys) == Ascending(Range(keys))

\* groupby("hole_index", sort=False): the distinct keys in first-seen order
RECURSIVE FirstSeen(_)
FirstSeen(keys) ==
    IF keys = <<>> THEN <<>>
    ELSE LET front == FirstSeen(SubSeq(keys, 1, Len(keys) - 1))
             last == keys[Len(keys)]
         IN  IF last \in Range(front) THEN front ELSE Append(front, last)

\* .size(): the number of rows of each group
GroupSize(keys, key) == Cardinality({r \in 1..Len(keys) : keys[r] = key})

\* .shift(1, fill_value=0)
Shift1(counts) ==
    [i \in 1..Len(counts) |-> IF i = 1 THEN 0 ELSE counts[i - 1]]

\* .cumsum()
RECURSIVE CumSum(_)
CumSum(xs) ==
    IF xs = <<>> THEN <<>>
    ELSE LET front == CumSum(SubSeq(xs, 1, Len(xs) - 1))
         IN  Append(front, (IF front = <<>> THEN 0 ELSE front[Len(front)]) + xs[Len(xs)])

\* (mutant) the shift left out: each offset includes its own count
ChunkOffsets_unshifted(counts) == CumSum(counts)

\* grouped["offset"] = grouped["count"].shift(1, fill_value=0).cumsum()
ChunkOffsets(counts) == CumSum(Shift1(counts))

\* DownholeCollectionToGeoscienceObject.holes_table
holes_table(d) ==
    LET keys == Column(d.mcols, d.measurements, HOLE_INDEX)
        grouped == FirstSeen(keys)
        counts == [i \in 1..Len(grouped) |-> GroupSize(keys, grouped[i])]
        offsets == ChunkOffsets(counts)
    IN  [i \in 1..Len(grouped) |->
            [hole_index |-> grouped[i], offset |-> offsets[i], count |-> counts[i]]]

\* collars_schema of is_collars_valid: column and expected type, in its order
collars_schema ==
    <<[col |-> "hole_index", type |-> "int"], [col |-> "hole_id", type |-> "str"],
      [col |-> "x", type |-> "float"], [col |-> "y", type |-> "float"],
      [col |-> "z", type |-> "float"], [col |-> "final_depth", type |-> "float"]>>

\* pandas.api.types on the dtypes the model uses
is_integer_dtype(dtype) == dtype = "int64"
is_float_dtype(dtype) == dtype = "float64"
is_string_dtype(dtype) == dtype \in {"object", "string"}

\* the dtype of column col of a frame given by its columns (name, dtype)
dtype_of(frame, col) ==
    LET i == CHOOSE i \in 1..Len(frame.columns) : frame.columns[i].name = col
    IN  frame.columns[i].dtype

\* DownholeCollection.is_schema_valid
is_schema_valid(df, schema) ==
    \A i \in 1..Len(schema) :
        LET actual_dtype == dtype_of(df, schema[i].col)
            expected_type == schema[i].type
        IN  /\ ~(expected_type = "int" /\ ~is_integer_dtype(actual_dtype))
            /\ ~(expected_type = "float" /\ ~is_float_dtype(actual_dtype))
            /\ ~(expected_type = "str" /\ ~is_string_dtype(actual_dtype)
                    /\ actual_dtype # "object")

\* DownholeCollection.is_collars_valid, on collars given as a frame's columns
\* or as an object of another kind
is_collars_valid(d) ==
    IF d.collars.kind # "DataFrame" THEN FALSE
    ELSE IF ~(\A i \in 1..Len(collars_schema) :
                 \E j \in 1..Len(d.collars.columns) :
                     d.collars.columns[j].name = collars_schema[i].col)
         THEN FALSE
    ELSE IF ~is_schema_valid(d.collars, collars_schema) THEN FALSE
    ELSE TRUE

\* str.lower() on the column names the model uses
str_lower(name) ==
    CASE name = "penetrationLength" -> "penetrationlength"
      [] name = "PenetrationLength" -> "penetrationlength"
      [] name = "Depth" -> "depth"
      [] name = "FROM" -> "from"
      [] name = "To" -> "to"
      [] OTHER -> name

\* DataFrame.empty: no row or no column
frame_empty(d) == Len(d.mcols) = 0 \/ Len(d.measurements) = 0

\* (mutant) the column name compared as it is written
is_distance_case_sensitive(d) ==
    IF frame_empty(d) \/ Len(d.mcols) < 2 THEN FALSE
    ELSE d.mcols[2] \in {"penetrationlength", "depth"}

\* DownholeCollection.is_distance
is_distance(d) ==
    IF frame_empty(d) \/ Len(d.mcols) < 2 THEN FALSE
    ELSE LET second_col == d.mcols[2] IN
         str_lower(second_col) \in {"penetrationlength", "depth"}

\* (mutant) only the third column looked at
is_interval_third_only(d) ==
    IF frame_empty(d) \/ Len(d.mcols) < 3 THEN FALSE
    ELSE str_lower(d.mcols[3]) = "to"

\* DownholeCollection.is_interval
is_interval(d) ==
    IF frame_empty(d) \/ Len(d.mcols) < 3 THEN FALSE
    ELSE LET second_col == d.mcols[2]
             third_col == d.mcols[3]
         IN  str_lower(second_col) = "from" /\ str_lower(third_col) = "to"

\* DownholeCollection.measurement_type
measurement_type(d) ==
    IF is_distance(d) THEN "distance"
    ELSE IF is_interval(d) THEN "interval"
    ELSE "unknown"

\* the minimum or maximum of an empty column is NaN
NaN == [nan |-> TRUE]
MinOf(xs) == IF xs = <<>> THEN NaN ELSE SeqMin(xs)
MaxOf(xs) == IF xs = <<>> THEN NaN ELSE SeqMax(xs)

\* one field of every collar, in Collar order
CollarColumn(d, field) == [k \in 1..Len(d.collars) |-> d.collars[k][field]]

\* (mutant) the collars taken to be sorted: first and last stand for min and max
bounding_box_first_last(d) ==
    LET first(xs) == IF xs = <<>> THEN NaN ELSE xs[1]
        last(xs) == IF xs = <<>> THEN NaN ELSE xs[Len(xs)]
    IN
    [min_x |-> first(CollarColumn(d, "x")), max_x |-> last(CollarColumn(d, "x")),
     min_y |-> first(CollarColumn(d, "y")), max_y |-> last(CollarColumn(d, "y")),
     min_z |-> first(CollarColumn(d, "z")), max_z |-> last(CollarColumn(d, "z"))]

\* DownholeCollection.bounding_box: min_x, max_x, min_y, max_y, min_z, max_z
bounding_box(d) ==
    [min_x |-> MinOf(CollarColumn(d, "x")), max_x |-> MaxOf(CollarColumn(d, "x")),
     min_y |-> MinOf(CollarColumn(d, "y")), max_y |-> MaxOf(CollarColumn(d, "y")),
     min_z |-> MinOf(CollarColumn(d, "z")), max_z |-> MaxOf(CollarColumn(d, "z"))]

\* DownholeCollectionToGeoscienceObject.create_bounding_box
exporter_create_bounding_box(d) ==
    LET box == bounding_box(d) IN
    [min_x |-> box.min_x, max_x |-> box.max_x, min_y |-> box.min_y,
     max_y |-> box.max_y, min_z |-> box.min_z, max_z |-> box.max_z]

coordinates_table(d) ==
    [k \in 1..Len(d.collars) |-> <<d.collars[k].x, d.collars[k].y, d.collars[k].z>>]

\* final, target, current: the final depth three times
distances_table(d) ==
    [k \in 1..Len(d.collars) |->
        <<d.collars[k].final_depth, d.collars[k].final_depth, d.collars[k].final_depth>>]

\* (mutant) the lookup pairs in reverse Collar order
hole_id_tables_reversed(d) ==
    [table |-> [k \in 1..Len(d.collars) |->
                   [key |-> d.collars[Len(d.collars) + 1 - k].hole_index,
                    value |-> d.collars[Len(d.collars) + 1 - k].hole_id]],
     values |-> [k \in 1..Len(d.collars) |-> d.collars[k].hole_index]]

hole_id_tables(d) ==
    [table |-> [k \in 1..Len(d.collars) |->
                   [key |-> d.collars[k].hole_index, value |-> d.collars[k].hole_id]],
     values |-> [k \in 1..Len(d.collars) |-> d.collars[k].hole_index]]

\* (mutant) azimuth and dip in each other's place
path_table_dip_first(d) ==
    LET distances == Column(d.mcols, d.measurements, PEN) IN
    [r \in 1..Len(d.measurements) |-> <<distances[r], DIP, AZIMUTH>>]

\* distance, azimuth, dip of every measurement row
path_table(d) ==
    LET distances == Column(d.mcols, d.measurements, PEN) IN
    [r \in 1..Len(d.measurements) |-> <<distances[r], AZIMUTH, DIP>>]

collection_distances_table(d) == Column(d.mcols, d.measurements, PEN)

\* frame[start:] of a pandas frame slices its rows and keeps every column
frame_row_slice(frame, start) ==
    [cols |-> frame.cols, rows |-> SubSeq(frame.rows, start + 1, Len(frame.rows))]

\* iterating a pandas frame yields its column labels
frame_labels(frame) == frame.cols

\* (mutant) the attribute tables hold the rows of the sliced frame
collection_attribute_tables_sliced(d) ==
    LET sliced == frame_row_slice([cols |-> d.mcols, rows |-> d.measurements], 2)
        names == frame_labels(sliced)
    IN  [i \in 1..Len(names) |->
            [key |-> names[i], values |-> Column(sliced.cols, sliced.rows, names[i])]]

\* collection_attribute_tables: one table per label that
\* `for attribute_name in self.dc.measurements[2:]` visits, keyed by the label
collection_attribute_tables(d) ==
    LET names == frame_labels(frame_row_slice([cols |-> d.mcols, rows |-> d.measurements], 2))
    IN  [i \in 1..Len(names) |->
            [key |-> names[i], values |-> Column(d.mcols, d.measurements, names[i])]]

\* save_table calls of create_dc_location up to the hole ids
ExporterLocationSaves ==
    <<Save("coordinates", ""), Save("distances", ""), Save("holes", ""),
      Save("hole_id.table", ""), Save("hole_id.values", "")>>

\* The storage collaborator. fail_at = n > 0 makes its n-th save_table call
\* raise; counting makes the reference it returns depend on the number of the
\* call as well as on the table
DataClient(counting, fail_at) == [counting |-> counting, fail_at |-> fail_at]
Reliable == DataClient(FALSE, 0)

\* (mutant) a collaborator whose reference always depends on the number of
\* the call
save_table_counting(data_client, n, table) == [data |-> table, token |-> n]

\* data_client.save_table(table) as the n-th call: the reference returned
save_table(data_client, n, table) ==
    [data |-> table, token |-> IF data_client.counting THEN n ELSE 0]

\* the pairs (save_table call, table handed to it) of convert(), in the order
\* create_dc_location and create_dc_collections reach them; the list ends where
\* a table cannot be derived (KeyError on a missing column)
save_table_calls(d) ==
    LET attributes == collection_attribute_tables(d)
        hole_ids == hole_id_tables(d)
        Call(save, table) == [save |-> save, table |-> table]
    IN
    <<Call(Save("coordinates", ""), coordinates_table(d)),
      Call(Save("distances", ""), distances_table(d))>>
    \o (IF HOLE_INDEX \notin Range(d.mcols) THEN <<>>
        ELSE <<Call(Save("holes", ""), holes_table(d)),
               Call(Save("hole_id.table", ""), hole_ids.table),
               Call(Save("hole_id.values", ""), hole_ids.values)>>
             \o (IF PEN \notin Range(d.mcols) THEN <<>>
                 ELSE <<Call(Save("path", ""), path_table(d)),
                        Call(Save("collections.values", ""), collection_distances_table(d))>>
                      \o [i \in 1..Len(attributes) |->
                             Call(Save("attribute", attributes[i].key), attributes[i].values)]
                      \o <<Call(Save("collections.holes", ""), holes_table(d))>>))

\* whether every table of convert() can be derived from the collection
derivable(d) == HOLE_INDEX \in Range(d.mcols) /\ PEN \in Range(d.mcols)

\* (mutant) the coordinates reference and the distances reference in each
\* other's field
compose_distances_first(d, refs) ==
    LET names == frame_labels([cols |-> d.mcols, rows |-> d.measurements]) IN
    [name |-> d.name,
     epsg_code |-> d.epsg_code,
     bounding_box |-> exporter_create_bounding_box(d),
     coordinates |-> refs[2],
     distances |-> refs[1],
     holes |-> refs[3],
     hole_id |-> [table |-> refs[4], values |-> refs[5]],
     path |-> refs[6],
     collection_values |-> refs[7],
     attributes |-> [i \in 1..Len(names) |-> [key |-> names[i], values |-> refs[7 + i]]],
     collection_holes |-> refs[8 + Len(names)]]

\* DownholeCollectionGo(...): every reference in the field of the call that
\* returned it
compose(d, refs) ==
    LET names == frame_labels([cols |-> d.mcols, rows |-> d.measurements]) IN
    [name |-> d.name,
     epsg_code |-> d.epsg_code,
     bounding_box |-> exporter_create_bounding_box(d),
     coordinates |-> refs[1],
     distances |-> refs[2],
     holes |-> refs[3],
     hole_id |-> [table |-> refs[4], values |-> refs[5]],
     path |-> refs[6],
     collection_values |-> refs[7],
     attributes |-> [i \in 1..Len(names) |-> [key |-> names[i], values |-> refs[7 + i]]],
     collection_holes |-> refs[8 + Len(names)]]

\* (mutant) a failed save_table call is issued once more before the failure
\* is passed on
convert_calls_retry(d, data_client, calls) ==
    LET failed == data_client.fail_at \in 1..Len(calls)
        issued == IF failed THEN data_client.fail_at ELSE Len(calls)
        returned == IF failed THEN issued - 1 ELSE issued
        refs == [i \in 1..returned |-> save_table(data_client, i, calls[i].table)]
        saves_issued == [i \in 1..issued |-> calls[i].save]
    IN
    IF failed
    THEN [exc |-> "StorageError", go |-> NoGo,
          saves |-> Append(saves_issued, calls[issued].save), refs |-> refs]
    ELSE IF ~derivable(d)
    THEN [exc |-> "KeyError", go |-> NoGo, saves |-> saves_issued, refs |-> refs]
    ELSE [exc |-> "none", go |-> compose(d, refs), saves |-> saves_issued, refs |-> refs]

\* convert() issuing the given save_table calls one after the other. Nothing
\* in convert() catches an exception: a call that raises ends the run
convert_calls(d, data_client, calls) ==
    LET failed == data_client.fail_at \in 1..Len(calls)
        issued == IF failed THEN data_client.fail_at ELSE Len(calls)
        returned == IF failed THEN issued - 1 ELSE issued
        refs == [i \in 1..returned |-> save_table(data_client, i, calls[i].table)]
        saves_issued == [i \in 1..issued |-> calls[i].save]
    IN
    IF failed
    THEN [exc |-> "StorageError", go |-> NoGo, saves |-> saves_issued, refs |-> refs]
    ELSE IF ~derivable(d)
    THEN [exc |-> "KeyError", go |-> NoGo, saves |-> saves_issued, refs |-> refs]
    ELSE [exc |-> "none", go |-> compose(d, refs), saves |-> saves_issued, refs |-> refs]

\* DownholeCollectionToGeoscienceObject(d, data_client).convert(): the exception
\* raised ("none" when it returns), the object returned, the save_table calls
\* issued, in order, and the references they returned
convert_client(d, data_client) == convert_calls(d, data_client, save_table_calls(d))

\* the tables behind the references of an exported object
tables_of(g) ==
    [name |-> g.name,
     epsg_code |-> g.epsg_code,
     bounding_box |-> g.bounding_box,
     coordinates |-> g.coordinates.data,
     distances |-> g.distances.data,
     holes |-> g.holes.data,
     hole_id |-> [table |-> g.hole_id.table.data, values |-> g.hole_id.values.data],
     path |-> g.path.data,
     collection_values |-> g.collection_values.data,
     attributes |-> [i \in 1..Len(g.attributes) |->
                        [key |-> g.attributes[i].key, values |-> g.attributes[i].values.data]],
     collection_holes |-> g.collection_holes.data]

\* what convert() gives with a collaborator that never fails: the exception
\* raised, the tables of the object returned and the save_table calls, in order
returned_tables(r) ==
    [exc |-> r.exc,
     saves |-> r.saves,
     go |-> IF r.exc = "none" THEN tables_of(r.go) ELSE NoGo]

convert(d) == returned_tables(convert_client(d, Reliable))

---------------------------------------------------------------------------
(* Collections handed straight to the constructor, as the exporter's tests do *)

DENSITY == "density"
DirectCols == <<HOLE_INDEX, PEN, DENSITY>>

DirectIds == <<"DH-001", "DH-002", "DH-003", "DH-004", "DH-005">>

\* collars of which the first is neither the southernmost nor the lowest
DirectCollars(n) ==
    [k \in 1..n |-> [hole_index |-> k, hole_id |-> DirectIds[k], x |-> 100 * k,
                     y |-> 500 + 100 * ((2 * k) % 3), z |-> 50 + 5 * (k % 2),
                     final_depth |-> 10 * k]]

\* a measurement row of hole hi: its depth and density follow from the hole
DirectRows == {<<hi, hi + 1, hi + 11>> : hi \in 1..MaxCollars}

\* the rows that belong to one of the first n collars
DirectRowsOf(n) == {r \in DirectRows : r[1] <= n}

---------------------------------------------------------------------------
(* The state machine *)

InitWith(srs_name) ==
    /\ pc = "parsing"
    /\ op = "init"
    /\ data = <<>>
    /\ err = "none"
    /\ dc = NoDc
    /\ via = "none"
    /\ go = NoGo
    /\ saves = <<>>
    /\ holes = <<>>
    /\ srs_in = srs_name
    /\ crs_out = Raised("none")
    /\ out = NoOut

Init == InitWith(SrsNone)

\* parse_gef_files reads one more record: stores it, or raises
ParseRecord(cpt_data) ==
    /\ pc = "parsing"
    /\ op \in {"init", "parse_gef_files"}
    /\ LET r == parse_gef_files_step(data, cpt_data) IN
        /\ data' = r.data
        /\ err' = r.exc
        /\ pc' = IF r.exc = "none" THEN "parsing" ELSE "failed"
    /\ op' = "parse_gef_files"
    /\ UNCHANGED <<dc, via, go, saves, holes, srs_in, crs_out, out>>

\* parse_gef_files returns the mapping
ParseReturn ==
    /\ pc = "parsing"
    /\ op \in {"init", "parse_gef_files"}
    /\ pc' = "parsed"
    /\ op' = "parse_gef_files"
    /\ UNCHANGED <<data, err, dc, via, go, saves, holes, srs_in, crs_out, out>>

\* create_downhole_collection(parsed_cpt_files, data_client)
CreateDownholeCollection ==
    /\ pc = "parsed"
    /\ LET r == create_downhole_collection(data) IN
        /\ go' = r.go
        /\ saves' = r.saves
        /\ err' = r.exc
        /\ pc' = IF r.exc = "none" THEN "converted" ELSE "failed"
    /\ op' = "create_downhole_collection"
    /\ UNCHANGED <<data, dc, via, holes, srs_in, crs_out, out>>

\* create_from_parsed_gef_cpts(parsed_cpt_files)
CreateFromParsedGefCpts ==
    /\ pc = "parsed"
    /\ LET r == create_from_parsed_gef_cpts(data) IN
        /\ dc' = r.dc
        /\ err' = r.exc
        /\ pc' = IF r.exc = "none" THEN "built" ELSE "failed"
    /\ via' = "batch"
    /\ op' = "create_from_parsed_gef_cpts"
    /\ UNCHANGED <<data, go, saves, holes, srs_in, crs_out, out>>

\* DownholeCollection(collars=..., measurements=..., name=..., epsg_code=...)
Construct(n, rows) ==
    /\ pc = "parsing"
    /\ op = "init"
    /\ dc' = DownholeCollection(DirectCollars(n), DirectCols, rows, <<"Test">>, 1)
    /\ via' = "direct"
    /\ pc' = "built"
    /\ op' = "DownholeCollection"
    /\ UNCHANGED <<data, err, go, saves, holes, srs_in, crs_out, out>>

\* DownholeCollectionToGeoscienceObject(dc, data_client).holes_table()
HolesTable ==
    /\ pc = "built"
    /\ op \in {"DownholeCollection", "create_from_parsed_gef_cpts"}
    /\ holes' = holes_table(dc)
    /\ op' = "holes_table"
    /\ UNCHANGED <<pc, data, err, dc, via, go, saves, srs_in, crs_out, out>>

\* DownholeCollectionToGeoscienceObject(dc, data_client).convert()
Convert ==
    /\ pc = "built"
    /\ op \in {"DownholeCollection", "create_from_parsed_gef_cpts"}
    /\ LET r == convert(dc) IN
        /\ go' = r.go
        /\ saves' = r.saves
        /\ err' = r.exc
        /\ pc' = IF r.exc = "none" THEN "exported" ELSE "failed"
    /\ op' = "convert"
    /\ UNCHANGED <<data, dc, via, holes, srs_in, crs_out, out>>

\* get_collection_name_from_collars on the collars of a collection just constructed
GetCollectionNameFromCollars ==
    /\ pc = "built"
    /\ op = "DownholeCollection"
    /\ out' = get_collection_name_from_collars(dc.collars)
    /\ op' = "get_collection_name_from_collars"
    /\ UNCHANGED <<pc, data, err, dc, via, go, saves, holes, srs_in, crs_out>>

Next ==
    \/ \E cpt_data \in CptRecords : ParseRecord(cpt_data)
    \/ ParseReturn
    \/ CreateDownholeCollection
    \/ CreateFromParsedGefCpts
    \/ \E n \in 0..MaxCollars :
          \E rows \in SeqsUpTo(DirectRowsOf(n), MaxMeas) : Construct(n, rows)
    \/ HolesTable
    \/ Convert
    \/ GetCollectionNameFromCollars

Spec == Init /\ [][Next]_vars

(* EPSG extraction on its own: every string over Chars up to MaxSrsLen, None *)
(* and a location without srs_name                                          *)

SrsInputs == {Str(s) : s \in SeqsUpTo(Chars, MaxSrsLen)} \cup {SrsNone, SrsAbsent}

InitEpsg == \E s \in SrsInputs : InitWith(s)

CreateCoordinateReferenceSystem ==
    /\ op = "init"
    /\ crs_out' = create_coordinate_reference_system([BaseCpt("A") EXCEPT !.srs_name = srs_in])
    /\ op' = "create_coordinate_reference_system"
    /\ UNCHANGED <<pc, data, err, dc, via, go, saves, holes, srs_in, out>>

ExtractEpsgCode ==
    /\ op = "init"
    /\ crs_out' = extract_epsg_code([BaseCpt("A") EXCEPT !.srs_name = srs_in])
    /\ op' = "_extract_epsg_code"
    /\ UNCHANGED <<pc, data, err, dc, via, go, saves, holes, srs_in, out>>

NextEpsg == CreateCoordinateReferenceSystem \/ ExtractEpsgCode

SpecEpsg == InitEpsg /\ [][NextEpsg]_vars

(* The layout queries on their own: every Measurements table of up to       *)
(* MaxCols columns named from LayoutNames, with up to MaxLayoutRows rows     *)

MaxCols == 3
MaxLayoutRows == 1

LayoutNames ==
    {HOLE_INDEX, PEN, "PenetrationLength", "penetrationlength", "depth", "Depth",
     "from", "FROM", "to", "To", "value"}

\* no query answered yet; an answer is held as a one-element sequence
NoAnswers == [is_distance |-> <<>>, is_interval |-> <<>>, measurement_type |-> <<>>]

InitLayout ==
    \E cols \in SeqsUpTo(LayoutNames, MaxCols), n \in 0..MaxLayoutRows :
        /\ pc = "built"
        /\ op = "DownholeCollection"
        /\ data = <<>>
        /\ err = "none"
        /\ dc = DownholeCollection(DirectCollars(1), cols,
                                   [r \in 1..n |-> [i \in 1..Len(cols) |-> r]],
                                   <<"Test">>, 1)
        /\ via = "direct"
        /\ go = NoGo
        /\ saves = <<>>
        /\ holes = <<>>
        /\ srs_in = SrsNone
        /\ crs_out = Raised("none")
        /\ out = NoAnswers

IsDistance ==
    /\ out.is_distance = <<>>
    /\ out' = [out EXCEPT !.is_distance = <<is_distance(dc)>>]
    /\ op' = "is_distance"
    /\ UNCHANGED <<pc, data, err, dc, via, go, saves, holes, srs_in, crs_out>>

IsInterval ==
    /\ out.is_interval = <<>>
    /\ out' = [out EXCEPT !.is_interval = <<is_interval(dc)>>]
    /\ op' = "is_interval"
    /\ UNCHANGED <<pc, data, err, dc, via, go, saves, holes, srs_in, crs_out>>

MeasurementType ==
    /\ out.measurement_type = <<>>
    /\ out' = [out EXCEPT !.measurement_type = <<measurement_type(dc)>>]
    /\ op' = "measurement_type"
    /\ UNCHANGED <<pc, data, err, dc, via, go, saves, holes, srs_in, crs_out>>

NextLayout == IsDistance \/ IsInterval \/ MeasurementType

SpecLayout == InitLayout /\ [][NextLayout]_vars

(* is_collars_valid on its own: an object that is no frame, and every frame *)
(* that has or lacks each column of the schema, in each dtype of Dtypes,     *)
(* with or without a column the schema does not name                        *)

Dtypes == {"int64", "float64", "object", "string"}

\* a frame by its columns; "missing" leaves the column out
CollarsFrame(dtypes, extra) ==
    [kind |-> "DataFrame",
     columns |-> SelectSeq([i \in 1..Len(collars_schema) |->
                               [name |-> collars_schema[i].col, dtype |-> dtypes[i]]],
                           LAMBDA c : c.dtype # "missing")
                     \o (IF extra THEN <<[name |-> "comment", dtype |-> "object"]>> ELSE <<>>)]

CollarsInputs ==
    {CollarsFrame(dtypes, extra) :
        dtypes \in [1..Len(collars_schema) -> Dtypes \cup {"missing"}], extra \in BOOLEAN}
        \cup {[kind |-> "dict", columns |-> <<>>]}

InitCollars ==
    \E collars \in CollarsInputs :
        /\ pc = "built"
        /\ op = "DownholeCollection"
        /\ data = <<>>
        /\ err = "none"
        /\ dc = DownholeCollection(collars, <<>>, <<>>, <<"Test">>, 1)
        /\ via = "direct"
        /\ go = NoGo
        /\ saves = <<>>
        /\ holes = <<>>
        /\ srs_in = SrsNone
        /\ crs_out = Raised("none")
        /\ out = <<>>

IsCollarsValid ==
    /\ op = "DownholeCollection"
    /\ out' = <<is_collars_valid(dc)>>
    /\ op' = "is_collars_valid"
    /\ UNCHANGED <<pc, data, err, dc, via, go, saves, holes, srs_in, crs_out>>

NextCollars == IsCollarsValid

SpecCollars == InitCollars /\ [][NextCollars]_vars

(* The exporter with its storage collaborator: convert() against a client   *)
(* that may fail at any call, the save_table calls issued in any order, and *)
(* the table methods called one by one                                      *)

\* most collars and most Measurement rows of a collection that is exported
MaxExportCollars == 2
MaxExportRows == 2

\* Measurements layouts: no attribute column, one, and two that lack a column
\* the exporter reads
ExportCols == {<<HOLE_INDEX, PEN>>, DirectCols, <<PEN, DENSITY>>, <<HOLE_INDEX, DENSITY>>}

\* row r of a table of n holes: the holes take turns, every other cell tells
\* its column and its row
ExportRow(cols, n, r) ==
    [i \in 1..Len(cols) |->
        IF cols[i] = HOLE_INDEX THEN ((r - 1) % n) + 1 ELSE 10 * i + r]

ExportCollections ==
    {DownholeCollection(DirectCollars(n), cols, [r \in 1..m |-> ExportRow(cols, n, r)],
                        <<"Test">>, 1) :
        n \in 1..MaxExportCollars, m \in 0..MaxExportRows, cols \in ExportCols}

TableMethods ==
    {"coordinates_table", "distances_table", "holes_table", "hole_id_tables",
     "path_table", "collection_distances_table", "collection_attribute_tables"}

\* the table a method of the exporter returns, or the KeyError it raises when
\* the column it reads is missing
table_method(d, method) ==
    LET needs == CASE method = "holes_table" -> {HOLE_INDEX}
                   [] method \in {"path_table", "collection_distances_table"} -> {PEN}
                   [] OTHER -> {}
    IN
    IF ~(needs \subseteq Range(d.mcols)) THEN [exc |-> "KeyError", table |-> <<>>]
    ELSE [exc |-> "none",
          table |-> CASE method = "coordinates_table" -> coordinates_table(d)
                      [] method = "distances_table" -> distances_table(d)
                      [] method = "holes_table" -> holes_table(d)
                      [] method = "hole_id_tables" -> hole_id_tables(d)
                      [] method = "path_table" -> path_table(d)
                      [] method = "collection_distances_table" -> collection_distances_table(d)
                      [] method = "collection_attribute_tables" -> collection_attribute_tables(d)]

\* no method called yet
NoTable == [method |-> "none", result |-> <<>>]

InitExport ==
    \E d \in ExportCollections :
        /\ pc = "built"
        /\ op = "DownholeCollection"
        /\ data = <<>>
        /\ err = "none"
        /\ dc = d
        /\ via = "direct"
        /\ go = NoGo
        /\ saves = <<>>
        /\ holes = NoTable
        /\ srs_in = SrsNone
        /\ crs_out = Raised("none")
        /\ out = [data_client |-> Reliable, refs |-> <<>>]

\* (mutant) the method sorts the Measurements of the collection in place
\* before it reads them
CallTable_sorting(method) ==
    /\ pc \in {"built", "exported"}
    /\ op # "save_table"
    /\ dc' = [dc EXCEPT !.measurements =
                 SortSeq(dc.measurements, LAMBDA a, b : a[Len(a)] > b[Len(b)])]
    /\ holes' = [method |-> method, result |-> table_method(dc', method)]
    /\ op' = method
    /\ UNCHANGED <<pc, data, err, via, go, saves, srs_in, crs_out, out>>

\* DownholeCollectionToGeoscienceObject(dc, data_client).<method>()
CallTable(method) ==
    /\ pc \in {"built", "exported"}
    /\ op # "save_table"
    /\ holes' = [method |-> method, result |-> table_method(dc, method)]
    /\ op' = method
    /\ UNCHANGED <<pc, data, err, dc, via, go, saves, srs_in, crs_out, out>>

\* DownholeCollectionToGeoscienceObject(dc, data_client).convert()
ConvertWith(data_client) ==
    /\ pc = "built"
    /\ op = "DownholeCollection"
    /\ LET r == convert_client(dc, data_client) IN
        /\ go' = r.go
        /\ saves' = r.saves
        /\ err' = r.exc
        /\ out' = [data_client |-> data_client,
                   refs |-> [i \in 1..Len(r.refs) |-> <<r.refs[i]>>]]
        /\ pc' = IF r.exc = "none" THEN "exported" ELSE "failed"
    /\ op' = "convert"
    /\ UNCHANGED <<data, dc, via, holes, srs_in, crs_out>>

\* the save_table calls of one export handed out to be issued in any order:
\* none has returned yet
IssueSaves ==
    /\ pc = "built"
    /\ op = "DownholeCollection"
    /\ derivable(dc)
    /\ out' = [data_client |-> Reliable,
               refs |-> [i \in 1..Len(save_table_calls(dc)) |-> <<>>]]
    /\ pc' = "saving"
    /\ op' = "save_table"
    /\ UNCHANGED <<data, err, dc, via, go, saves, holes, srs_in, crs_out>>

\* number of save_table calls that have returned
Returned(refs) == Cardinality({i \in 1..Len(refs) : refs[i] # <<>>})

\* the i-th save_table call of convert() is issued, whichever calls came before
\* it (the order of the calls is not recorded)
SaveTable(i) ==
    /\ pc = "saving"
    /\ out.refs[i] = <<>>
    /\ out' = [out EXCEPT !.refs[i] =
                  <<save_table(out.data_client, Returned(out.refs) + 1,
                               save_table_calls(dc)[i].table)>>]
    /\ UNCHANGED <<pc, op, data, err, dc, via, go, saves, holes, srs_in, crs_out>>

\* every call has returned: the object is composed
ComposeSaved ==
    /\ pc = "saving"
    /\ \A i \in 1..Len(out.refs) : out.refs[i] # <<>>
    /\ go' = compose(dc, [i \in 1..Len(out.refs) |-> out.refs[i][1]])
    /\ pc' = "exported"
    /\ op' = "compose"
    /\ UNCHANGED <<data, err, dc, via, saves, holes, srs_in, crs_out, out>>

NextExport ==
    \/ \E method \in TableMethods : CallTable(method)
    \/ \E counting \in BOOLEAN :
          \E fail_at \in 0..Len(save_table_calls(dc)) :
              ConvertWith(DataClient(counting, fail_at))
    \/ IssueSaves
    \/ \E i \in 1..Len(out.refs) : SaveTable(i)
    \/ ComposeSaved

SpecExport == InitExport /\ [][NextExport]_vars

(* Reading files: parse_gef_files on a list of files, is_gef_cpt on one    *)

\* most files handed to parse_gef_files
MaxFiles == 2

\* a record without an identifier
NoIdCpt == [BaseCpt("A") EXCEPT !.alias = ""]

\* files that are missing, of another kind, unreadable, empty, lacking a
\* required column or an identifier, and files with one or two records
GefFiles ==
    {GefFile(FALSE, ".gef", "none", <<>>),
     GefFile(TRUE, ".txt", "none", <<>>),
     GefFile(TRUE, ".gef", "ValueError", <<>>),
     GefFile(TRUE, ".gef", "PermissionError", <<>>),
     GefFile(TRUE, ".xml", "PermissionError", <<>>),
     GefFile(TRUE, ".xml", "none", <<>>),
     GefFile(TRUE, ".gef", "none", <<NoConeCpt("A")>>),
     GefFile(TRUE, ".gef", "none", <<NoIdCpt>>),
     GefFile(TRUE, ".GEF", "none", <<BaseCpt("A")>>),
     GefFile(TRUE, ".gef", "none", <<BaseCpt("B")>>),
     GefFile(TRUE, ".gef", "none", <<[BaseCpt("A") EXCEPT !.bro_id = "B"]>>),
     GefFile(TRUE, ".xml", "none", <<BaseCpt("A"), BaseCpt("B")>>),
     GefFile(TRUE, ".XML", "none", <<BaseCpt("B"), BaseCpt("C")>>),
     GefFile(TRUE, ".xml", "none", <<BaseCpt("C"), BaseCpt("C")>>)}

InitFiles ==
    \E filepaths \in SeqsUpTo(GefFiles, MaxFiles) :
        /\ pc = "init"
        /\ op = "init"
        /\ data = <<>>
        /\ err = "none"
        /\ dc = NoDc
        /\ via = "none"
        /\ go = NoGo
        /\ saves = <<>>
        /\ holes = <<>>
        /\ srs_in = SrsNone
        /\ crs_out = Raised("none")
        /\ out = [filepaths |-> filepaths, asked |-> 0, value |-> <<>>]

\* parse_gef_files(filepaths)
ParseGefFiles ==
    /\ op = "init"
    /\ LET r == parse_gef_files(out.filepaths) IN
        /\ data' = r.data
        /\ err' = r.exc
        /\ pc' = IF r.exc = "none" THEN "parsed" ELSE "failed"
    /\ op' = "parse_gef_files"
    /\ UNCHANGED <<dc, via, go, saves, holes, srs_in, crs_out, out>>

\* is_gef_cpt(filepaths[i])
IsGefCpt(i) ==
    /\ op = "init"
    /\ LET r == is_gef_cpt(out.filepaths[i]) IN
        /\ out' = [out EXCEPT !.asked = i, !.value = r.value]
        /\ err' = r.exc
        /\ pc' = IF r.exc = "none" THEN "returned" ELSE "failed"
    /\ op' = "is_gef_cpt"
    /\ UNCHANGED <<data, dc, via, go, saves, holes, srs_in, crs_out>>

NextFiles ==
    \/ ParseGefFiles
    \/ \E i \in 1..Len(out.filepaths) : IsGefCpt(i)

SpecFiles == InitFiles /\ [][NextFiles]_vars

---------------------------------------------------------------------------
(* Properties *)

HoleKeys == Column(dc.mcols, dc.measurements, HOLE_INDEX)
ChunkCounts == [i \in 1..Len(holes) |-> holes[i].count]
Built == pc = "built" /\ via = "batch"
SourceRows(k) == data[k].cpt.rows
SourceCols(k) == data[k].cpt.cols
\* rows of the holes before hole k of the batch
RowsBefore(k) == SeqSum([i \in 1..(k - 1) |-> Len(SourceRows(i))])
Cell(cols, row, name) == row[IndexOf(cols, name)]

\* C1: the chunks of holes_table() start at offset 0, each offset is the sum of
\* the counts before it, and the counts add up to the number of Measurement rows;
\* the chunks of the direct converter obey the same rule
C1_OffsetCount ==
    /\ op = "holes_table" =>
           /\ Len(holes) > 0 => holes[1].offset = 0
           /\ \A i \in 1..Len(holes) :
                  holes[i].offset = SeqSum([j \in 1..(i - 1) |-> holes[j].count])
           /\ SeqSum(ChunkCounts) = Len(dc.measurements)
    /\ pc = "converted" =>
           /\ go.holes[1].offset = 0
           /\ \A i \in 1..Len(go.holes) :
                  go.holes[i].offset = SeqSum([j \in 1..(i - 1) |-> go.holes[j].count])
           /\ SeqSum([i \in 1..Len(go.holes) |-> go.holes[i].count])
                  = Len(go.collection_values)

\* holes_table() has run on a table of three groups of unequal size
C1_Witness ==
    /\ op = "holes_table"
    /\ Len(holes) = 3
    /\ holes[1].count = 1 /\ holes[2].count = 2 /\ holes[3].offset = 3

\* a collection whose rows all belong to a collar and lie in Collar order
WellFormed ==
    /\ \A r \in 1..Len(HoleKeys) :
           \E k \in 1..Len(dc.collars) : dc.collars[k].hole_index = HoleKeys[r]
    /\ \A r \in 1..(Len(HoleKeys) - 1) : HoleKeys[r] <= HoleKeys[r + 1]

\* C2: the hole-chunk table has one record per Collar row, in Collar order,
\* also when a hole has no Measurement row (refuted by holes_table)
C2_OneChunkPerCollar ==
    (op = "holes_table" /\ WellFormed) =>
        /\ Len(holes) = Len(dc.collars)
        /\ \A i \in 1..Len(holes) : holes[i].hole_index = dc.collars[i].hole_index

\* rows of one hole are next to each other
Contiguous(keys) ==
    \A a \in 1..Len(keys), b \in 1..Len(keys), c \in 1..Len(keys) :
        (a < b /\ b < c /\ keys[a] = keys[c]) => keys[b] = keys[a]

\* C3: count[i] is the number of rows of chunk i's hole and, when the rows are
\* grouped by hole, rows offset[i] .. offset[i]+count[i]-1 (counted from 0) are
\* exactly the rows of that hole
C3_ChunkSlices ==
    op = "holes_table" =>
        /\ \A i \in 1..Len(holes) :
               holes[i].count =
                   Cardinality({r \in 1..Len(HoleKeys) : HoleKeys[r] = holes[i].hole_index})
        /\ Contiguous(HoleKeys) =>
               \A i \in 1..Len(holes), r \in 1..Len(HoleKeys) :
                   (HoleKeys[r] = holes[i].hole_index)
                       <=> (holes[i].offset < r /\ r <= holes[i].offset + holes[i].count)

\* holes_table() has run on grouped rows whose holes are not in ascending order
C3_Witness ==
    /\ op = "holes_table"
    /\ Contiguous(HoleKeys)
    /\ Len(holes) = 2
    /\ holes[1].hole_index > holes[2].hole_index
    /\ holes[1].count = 2

\* C4: the Collars table of a batch of N holes has N rows, hole_index 1..N,
\* row k describing the k-th hole of the batch; the lookup table of the direct
\* converter pairs the same indices with the same holes
C4_IndexDensity ==
    /\ Built =>
           /\ Len(dc.collars) = Len(data)
           /\ Len(data) >= 1
           /\ \A k \in 1..Len(data) :
                  /\ dc.collars[k].hole_index = k
                  /\ dc.collars[k].hole_id = data[k].key
                  /\ dc.collars[k].x = data[k].cpt.x[1]
    /\ pc = "converted" =>
           /\ Len(go.hole_id.table) = Len(data)
           /\ \A k \in 1..Len(data) :
                  go.hole_id.table[k] = [key |-> k, value |-> data[k].key]

\* a batch of three holes that are not in the order of their identifiers is built
C4_Witness ==
    /\ Built
    /\ Len(data) = 3
    /\ data[1].key = "C" /\ data[2].key = "A"

\* C5: the Measurements table holds every source row once: hole after hole in
\* batch order, rows in source order, each row of hole k tagged k; the direct
\* converter lays the depths out in the same order
C5_Concatenation ==
    /\ Built =>
           /\ Len(dc.measurements) = SeqSum([k \in 1..Len(data) |-> Len(SourceRows(k))])
           /\ \A k \in 1..Len(data) : \A j \in 1..Len(SourceRows(k)) :
                  LET row == dc.measurements[RowsBefore(k) + j] IN
                  /\ Cell(dc.mcols, row, HOLE_INDEX) = k
                  /\ \A c \in {PEN, CONE} :
                         Cell(dc.mcols, row, c) = Cell(SourceCols(k), SourceRows(k)[j], c)
    /\ pc = "converted" =>
           \A k \in 1..Len(data) : \A j \in 1..Len(SourceRows(k)) :
               go.collection_values[RowsBefore(k) + j]
                   = Cell(SourceCols(k), SourceRows(k)[j], PEN)

\* three holes with two, no and two rows, the first in descending depth, are built
C5_Witness ==
    /\ Built
    /\ Len(data) = 3
    /\ Len(SourceRows(1)) = 2 /\ Len(SourceRows(2)) = 0 /\ Len(SourceRows(3)) = 2
    /\ Cell(SourceCols(1), SourceRows(1)[1], PEN) = 2

\* C6: every Measurement row of a built collection carries the hole_index of
\* one of its Collar rows
C6_ForeignKey ==
    Built =>
        \A r \in 1..Len(dc.measurements) :
            \E k \in 1..Len(dc.collars) :
                dc.collars[k].hole_index = Cell(dc.mcols, dc.measurements[r], HOLE_INDEX)

\* a collection of two holes with rows in the last hole is built
C6_Witness ==
    /\ Built
    /\ Len(dc.collars) = 2
    /\ Len(dc.measurements) >= 3
    /\ Cell(dc.mcols, dc.measurements[Len(dc.measurements)], HOLE_INDEX) = 2

HasOwnIndex(k) == HOLE_INDEX \in Range(SourceCols(k))

\* C7: when a source table has a hole_index column, the Measurements table
\* still has one hole_index column, in front, holding the assigned index and
\* not the source's value, and the other columns keep their order and values
C7_NoDuplicateIndexColumn ==
    Built =>
        \A k \in 1..Len(data) :
            HasOwnIndex(k) =>
                /\ Cardinality({i \in 1..Len(dc.mcols) : dc.mcols[i] = HOLE_INDEX}) = 1
                /\ dc.mcols[1] = HOLE_INDEX
                /\ Range(dc.mcols) = Range(SourceCols(k))
                /\ \A c1 \in Range(SourceCols(k)) \ {HOLE_INDEX},
                      c2 \in Range(SourceCols(k)) \ {HOLE_INDEX} :
                       (IndexOf(SourceCols(k), c1) < IndexOf(SourceCols(k), c2))
                           <=> (IndexOf(dc.mcols, c1) < IndexOf(dc.mcols, c2))
                /\ \A j \in 1..Len(SourceRows(k)) :
                       LET row == dc.measurements[RowsBefore(k) + j] IN
                       /\ Len(row) = Len(dc.mcols)
                       /\ row[1] = k
                       /\ row[1] # Cell(SourceCols(k), SourceRows(k)[j], HOLE_INDEX)
                       /\ \A c \in Range(SourceCols(k)) \ {HOLE_INDEX} :
                              Cell(dc.mcols, row, c)
                                  = Cell(SourceCols(k), SourceRows(k)[j], c)

\* a batch whose second hole brings a hole_index column of its own is built
C7_Witness ==
    /\ Built
    /\ Len(data) >= 2
    /\ HasOwnIndex(2) /\ ~HasOwnIndex(1)
    /\ Len(SourceRows(2)) = 2

\* the EPSG code the direct converter extracts from record k
ExtractedCode(k) == create_coordinate_reference_system(data[k].cpt)

\* C8: the EPSG code is that of the first hole; a later hole with another code
\* makes the build fail with no object produced (refuted by
\* create_downhole_collection, which reads the first hole only)
C8_EpsgConsistency ==
    op = "create_downhole_collection" =>
        /\ pc = "converted" => go.epsg_code = ExtractedCode(1).epsg_code
        /\ (/\ data # <<>>
            /\ ExtractedCode(1).exc = "none"
            /\ \E k \in 2..Len(data) :
                   /\ ExtractedCode(k).exc = "none"
                   /\ ExtractedCode(k).epsg_code # ExtractedCode(1).epsg_code)
               => (pc = "failed" /\ go = NoGo)

\* what the specification asks of EPSG extraction
ExpectedExtraction(srs_name) ==
    IF /\ srs_name.kind = "str"
       /\ ":" \in Range(srs_name.s)
       /\ IsIntLiteral(LastToken(srs_name.s))
    THEN [exc |-> "none", epsg_code |-> IntOf(LastToken(srs_name.s))]
    ELSE Raised("ValueError")

\* C9: EPSG extraction returns the integer after the last ":" and raises a
\* ValueError when srs_name is absent, has no ":" or ends in a non-integer
\* (refuted by create_coordinate_reference_system)
C9_EpsgExtraction ==
    op = "create_coordinate_reference_system" => crs_out = ExpectedExtraction(srs_in)

\* C10: an empty batch fails with a ValueError, before any table is built and
\* before any save call
C10_EmptyBatch ==
    (op = "create_downhole_collection" /\ data = <<>>) =>
        /\ pc = "failed"
        /\ err = "ValueError"
        /\ saves = <<>>
        /\ go = NoGo
        /\ dc = NoDc

\* the direct converter was handed an empty mapping
C10_Witness ==
    /\ op = "create_downhole_collection"
    /\ data = <<>>
    /\ pc = "failed"

\* every record of the batch carries a spatial reference that can be read
SrsReadable == \A k \in 1..Len(data) : ExtractedCode(k).exc = "none"

\* the final depth the specification asks for: the supplied one unless it is 0
ExpectedFinalDepth(cpt_data) ==
    IF cpt_data.final_depth # 0 THEN cpt_data.final_depth
    ELSE SeqMax(Column(cpt_data.cols, cpt_data.rows, PEN))

\* a record whose final depth cannot be derived
NoFinalDepth(cpt_data) ==
    /\ cpt_data.final_depth = 0
    /\ PEN \notin Range(cpt_data.cols) \/ cpt_data.rows = <<>>

\* C11: the final depth of a hole is the supplied one when nonzero and else the
\* maximum of its penetrationLength column; a hole with final depth 0 and no
\* such column, or no row in it, makes the build fail (refuted by
\* create_dc_location_distances, which hands on the supplied value as it is)
C11_FinalDepth ==
    /\ Built => \A k \in 1..Len(data) :
                    dc.collars[k].final_depth = ExpectedFinalDepth(data[k].cpt)
    /\ (/\ op = "create_from_parsed_gef_cpts"
        /\ \E k \in 1..Len(data) : NoFinalDepth(data[k].cpt))
           => (pc = "failed" /\ err \in ValueErrors)
    /\ pc = "converted" =>
           /\ \A k \in 1..Len(data) : ~NoFinalDepth(data[k].cpt)
           /\ \A k \in 1..Len(data) :
                  go.distances[k][1] = ExpectedFinalDepth(data[k].cpt)

LacksLocation(cpt_data) == cpt_data.x = <<>> \/ cpt_data.y = <<>>

\* C12: a hole without location.x or location.y makes the build fail with a
\* missing-location error, a ValueError (refuted by create_bounding_box, which
\* lets the AttributeError of the missing attribute escape)
C12_MissingLocation ==
    /\ (/\ op = "create_from_parsed_gef_cpts"
        /\ \E k \in 1..Len(data) : LacksLocation(data[k].cpt))
           => (pc = "failed" /\ err \in ValueErrors)
    /\ Built => \A k \in 1..Len(data) : ~LacksLocation(data[k].cpt)
    /\ (/\ op = "create_downhole_collection"
        /\ SrsReadable
        /\ \E k \in 1..Len(data) : LacksLocation(data[k].cpt))
           => (pc = "failed" /\ err \in ValueErrors)

\* the name the specification derives from the hole ids in Collar order
ExpectedName(ids) ==
    IF Len(ids) = 0 THEN <<>>
    ELSE IF Len(ids) = 1 THEN <<ids[1]>>
    ELSE <<ids[1], "...", ids[Len(ids)]>>

\* C13: the collection is named "" for no collar, by its hole id for one and
\* "<first>...<last>" for more, and the exported object carries that name
\* (refuted by create_downhole_collection, which names every object alike)
C13_CollectionName ==
    /\ op = "get_collection_name_from_collars" =>
           out = ExpectedName(CollarColumn(dc, "hole_id"))
    /\ Built => dc.name = ExpectedName(Keys(data))
    /\ pc = "exported" => go.name = dc.name
    /\ pc = "converted" => go.name = ExpectedName(Keys(data))

\* C14: whatever the Measurements table, is_distance() and is_interval() are
\* never both true
C14_LayoutExclusive ==
    (out.is_distance # <<>> /\ out.is_interval # <<>>) =>
        ~(out.is_distance[1] /\ out.is_interval[1])

\* both queries were put to a table that is a distance table and whose third
\* column is named like the end of an interval
C14_Witness ==
    /\ out.is_distance = <<TRUE>>
    /\ out.is_interval = <<FALSE>>
    /\ Len(dc.mcols) = 3
    /\ dc.mcols[2] = "Depth" /\ dc.mcols[3] = "To"

\* the spellings of a name that differ in case only
Spellings(name) ==
    CASE name = "penetrationlength" -> {"penetrationlength", "penetrationLength", "PenetrationLength"}
      [] name = "depth" -> {"depth", "Depth"}
      [] name = "from" -> {"from", "FROM"}
      [] name = "to" -> {"to", "To"}

HasRowsAndColumns(n) == Len(dc.measurements) > 0 /\ Len(dc.mcols) >= n

DistanceLayout ==
    /\ HasRowsAndColumns(2)
    /\ dc.mcols[2] \in Spellings("penetrationlength") \cup Spellings("depth")

IntervalLayout ==
    /\ HasRowsAndColumns(3)
    /\ dc.mcols[2] \in Spellings("from")
    /\ dc.mcols[3] \in Spellings("to")

\* C15: measurement_type() is "distance" exactly for a table with rows whose
\* second column is penetrationlength or depth in any case, "interval" exactly
\* for one with rows whose second and third columns are from and to in any
\* case, and "unknown" for every other table
C15_MeasurementType ==
    out.measurement_type # <<>> =>
        /\ out.measurement_type[1] = "distance" <=> DistanceLayout
        /\ out.measurement_type[1] = "interval" <=> IntervalLayout
        /\ out.measurement_type[1] = "unknown" <=> (~DistanceLayout /\ ~IntervalLayout)
        /\ out.measurement_type[1] \in {"distance", "interval", "unknown"}

\* measurement_type() was asked of a distance table named in mixed case
C15_Witness ==
    /\ out.measurement_type = <<"distance">>
    /\ dc.mcols[2] = "PenetrationLength"
    /\ Len(dc.mcols) = 2

\* the names of the columns of the collars handed in
CollarNames == {dc.collars.columns[i].name : i \in 1..Len(dc.collars.columns)}

\* the dtype the specification asks of a column: hole_index integer, hole_id
\* string (which pandas also holds as object), the others float
RightDtype(name, dtype) ==
    CASE name = "hole_index" -> dtype = "int64"
      [] name = "hole_id" -> dtype \in {"object", "string"}
      [] OTHER -> dtype = "float64"

\* C16: is_collars_valid() is true exactly for a table whose columns are
\* hole_index, hole_id, x, y, z, final_depth and no other, each of its type,
\* and false for anything else (refuted by is_collars_valid, which accepts a
\* table with a further column)
C16_CollarsValid ==
    op = "is_collars_valid" =>
        out = <<(/\ dc.collars.kind = "DataFrame"
                 /\ CollarNames = {"hole_index", "hole_id", "x", "y", "z", "final_depth"}
                 /\ \A i \in 1..Len(dc.collars.columns) :
                        RightDtype(dc.collars.columns[i].name, dc.collars.columns[i].dtype))>>

\* lo and hi are the least and the greatest of the values xs
Extrema(lo, hi, xs) ==
    /\ \A k \in 1..Len(xs) : lo <= xs[k] /\ xs[k] <= hi
    /\ \E k \in 1..Len(xs) : xs[k] = lo
    /\ \E k \in 1..Len(xs) : xs[k] = hi
    /\ lo <= hi
    /\ Len(xs) = 1 => lo = hi

\* the z of a parsed record: 0 when none was delivered
SourceZ(k) == IF data[k].cpt.z = <<>> THEN 0 ELSE data[k].cpt.z[1]

\* C17: with at least one collar, the bounding box is the minimum and maximum
\* of the collars' x, y and z, every collar lies inside it, and the exported
\* object has the same six values
C17_BoundingBox ==
    /\ (pc = "exported" /\ Len(dc.collars) >= 1) =>
           /\ Extrema(go.bounding_box.min_x, go.bounding_box.max_x, CollarColumn(dc, "x"))
           /\ Extrema(go.bounding_box.min_y, go.bounding_box.max_y, CollarColumn(dc, "y"))
           /\ Extrema(go.bounding_box.min_z, go.bounding_box.max_z, CollarColumn(dc, "z"))
    /\ pc = "converted" =>
           /\ Extrema(go.bounding_box[1], go.bounding_box[2],
                      [k \in 1..Len(data) |-> data[k].cpt.x[1]])
           /\ Extrema(go.bounding_box[3], go.bounding_box[4],
                      [k \in 1..Len(data) |-> data[k].cpt.y[1]])
           /\ Extrema(go.bounding_box[5], go.bounding_box[6],
                      [k \in 1..Len(data) |-> SourceZ(k)])

\* three collars, the first neither the southernmost nor the lowest, exported
C17_Witness ==
    /\ pc = "exported"
    /\ via = "direct"
    /\ Len(dc.collars) = 3
    /\ go.bounding_box.min_y < dc.collars[1].y
    /\ go.bounding_box.min_z < dc.collars[1].z
    /\ go.bounding_box.max_x > dc.collars[1].x

\* C18: the exported Distances table has one row per hole in Collar order, and
\* final, target and current are all that hole's final depth (refuted by
\* create_dc_location_distances, whose current is the predrilled depth)
C18_Distances ==
    /\ pc = "exported" =>
           /\ Len(go.distances) = Len(dc.collars)
           /\ \A k \in 1..Len(dc.collars) :
                  go.distances[k] = <<dc.collars[k].final_depth, dc.collars[k].final_depth,
                                      dc.collars[k].final_depth>>
    /\ pc = "converted" =>
           /\ Len(go.distances) = Len(data)
           /\ \A k \in 1..Len(data) :
                  /\ go.distances[k][1] = data[k].cpt.final_depth
                  /\ go.distances[k][2] = go.distances[k][1]
                  /\ go.distances[k][3] = go.distances[k][1]

\* C19: the exported Path table has one row per Measurement row, in order:
\* the row's penetrationLength, azimuth 0 and dip 90
C19_PathTable ==
    /\ pc = "exported" =>
           /\ Len(go.path) = Len(dc.measurements)
           /\ \A r \in 1..Len(dc.measurements) :
                  go.path[r] = <<Cell(dc.mcols, dc.measurements[r], PEN), 0, 90>>
    /\ pc = "converted" =>
           /\ Len(go.path) = SeqSum([k \in 1..Len(data) |-> Len(SourceRows(k))])
           /\ \A k \in 1..Len(data) : \A j \in 1..Len(SourceRows(k)) :
                  go.path[RowsBefore(k) + j]
                      = <<Cell(SourceCols(k), SourceRows(k)[j], PEN), 0, 90>>

\* a collection built from two holes, the first with rows in descending depth,
\* is exported
C19_Witness ==
    /\ pc = "exported"
    /\ via = "batch"
    /\ Len(go.path) >= 3
    /\ go.path[1][1] > go.path[2][1]
    /\ Len(dc.collars) = 2

\* C20: collection_attribute_tables() gives one table per Measurements column
\* after the first two, keyed by the column's name, in column order, holding
\* the column's values in row order, and none for hole_index or for the primary
\* axis (refuted by collection_attribute_tables, which visits every column)
C20_AttributeTables ==
    pc = "exported" =>
        /\ Len(go.attributes) = Len(dc.mcols) - 2
        /\ \A i \in 1..Len(go.attributes) :
               /\ i + 2 <= Len(dc.mcols)
               /\ go.attributes[i].key = dc.mcols[i + 2]
               /\ go.attributes[i].values
                      = Column(dc.mcols, dc.measurements, dc.mcols[i + 2])
        /\ \A i \in 1..Len(go.attributes) :
               go.attributes[i].key \notin {dc.mcols[1], dc.mcols[2]}

\* C21: the hole-id lookup has one (key, value) pair per Collar row, in Collar
\* order, with key = hole_index and value = hole_id, and the values array holds
\* the same keys in the same order; for a collection built from a batch the
\* keys are 1..N and the values are the identifiers in batch order
C21_HoleIdLookup ==
    /\ pc = "exported" =>
           /\ Len(go.hole_id.table) = Len(dc.collars)
           /\ Len(go.hole_id.values) = Len(dc.collars)
           /\ \A k \in 1..Len(dc.collars) :
                  /\ go.hole_id.table[k].key = dc.collars[k].hole_index
                  /\ go.hole_id.table[k].value = dc.collars[k].hole_id
                  /\ go.hole_id.values[k] = go.hole_id.table[k].key
    /\ (pc = "exported" /\ via = "batch") =>
           /\ Len(go.hole_id.table) = Len(data)
           /\ \A k \in 1..Len(data) :
                  /\ go.hole_id.table[k].key = k
                  /\ go.hole_id.table[k].value = data[k].key
    /\ pc = "converted" =>
           /\ Len(go.hole_id.table) = Len(data)
           /\ Len(go.hole_id.values) = Len(data)
           /\ \A k \in 1..Len(data) :
                  /\ go.hole_id.table[k] = [key |-> k, value |-> data[k].key]
                  /\ go.hole_id.values[k] = k

\* a collection built from three holes parsed in the order C, A, B is exported
C21_Witness ==
    /\ pc = "exported"
    /\ via = "batch"
    /\ Len(go.hole_id.table) = 3
    /\ go.hole_id.table[1].value = "C"
    /\ go.hole_id.table[2].value = "A"

\* the derived table a save_table call hands over: the hole chunks of the
\* location and those of the collection are the same table
DerivedTable(save) ==
    IF save.table = "collections.holes" THEN Save("holes", "") ELSE save

\* a convert() run of the exporter has returned
Converted == pc = "exported" /\ op = "convert"

\* C22: one convert() run saves every derived table exactly once: 7 + k
\* save_table calls for k attribute columns, and no table twice
\* (refuted: the hole chunks are saved twice, and every column is an attribute)
C22_OneSavePerTable ==
    Converted =>
        /\ Len(saves) = 7 + (Len(dc.mcols) - 2)
        /\ \A i, j \in 1..Len(saves) :
               i # j => DerivedTable(saves[i]) # DerivedTable(saves[j])

\* the reference that the save_table call of the named table returned
RefOf(table, name) == out.refs[IndexOf(saves, Save(table, name))][1]

\* C23: every reference sits, unchanged, in the field of the table that was
\* saved for it, and the save_table calls come in the order of the fields:
\* coordinates, distances, holes, hole_id (lookup, values), path, and only then
\* the tables of the collection
C23_FieldOrder ==
    Converted =>
        /\ go.coordinates = RefOf("coordinates", "")
        /\ go.coordinates.data = coordinates_table(dc)
        /\ go.distances = RefOf("distances", "")
        /\ go.distances.data = distances_table(dc)
        /\ go.holes = RefOf("holes", "")
        /\ go.holes.data = holes_table(dc)
        /\ go.hole_id.table = RefOf("hole_id.table", "")
        /\ go.hole_id.table.data = hole_id_tables(dc).table
        /\ go.hole_id.values = RefOf("hole_id.values", "")
        /\ go.hole_id.values.data = hole_id_tables(dc).values
        /\ go.path = RefOf("path", "")
        /\ go.path.data = path_table(dc)
        /\ go.collection_values = RefOf("collections.values", "")
        /\ go.collection_holes = RefOf("collections.holes", "")
        /\ \A i \in 1..Len(go.attributes) :
               go.attributes[i].values = RefOf("attribute", go.attributes[i].key)
        /\ SubSeq(saves, 1, 5) = ExporterLocationSaves
        /\ saves[6] = Save("path", "")
        /\ \A i \in 1..Len(saves) :
               saves[i].table \in {"collections.values", "attribute", "collections.holes"}
                   <=> i > 6

\* a collection of two holes with an attribute column is exported through a
\* collaborator whose references tell the calls apart
C23_Witness ==
    /\ Converted
    /\ out.data_client.counting
    /\ Len(dc.collars) = 2
    /\ Len(dc.measurements) = 2
    /\ DENSITY \in Range(dc.mcols)

C28_NoMutation ==
    [][/\ dc' = dc
       /\ holes'.method = holes.method => holes'.result = holes.result]_vars

\* after convert(), a table method was called on a collection with rows
C28_Witness ==
    /\ pc = "exported"
    /\ holes.method = "collection_attribute_tables"
    /\ Len(dc.measurements) = 2
    /\ go # NoGo

\* C29: in every export the Path table, the collection distance values and
\* every attribute table have as many rows as the Measurements table, which is
\* the sum of the counts of the hole chunks; the coordinates, the distances,
\* the hole-id lookup and the hole-id values have as many rows as the Collars
C29_TableLengths ==
    pc = "exported" =>
        /\ Len(go.path) = Len(dc.measurements)
        /\ Len(go.collection_values) = Len(dc.measurements)
        /\ \A i \in 1..Len(go.attributes) :
               Len(go.attributes[i].values) = Len(dc.measurements)
        /\ SeqSum([i \in 1..Len(go.holes) |-> go.holes[i].count]) = Len(dc.measurements)
        /\ Len(go.coordinates) = Len(dc.collars)
        /\ Len(go.distances) = Len(dc.collars)
        /\ Len(go.hole_id.table) = Len(dc.collars)
        /\ Len(go.hole_id.values) = Len(dc.collars)

\* a collection with two collars and four Measurement rows is exported
C29_Witness ==
    /\ pc = "exported"
    /\ Len(dc.collars) = 2
    /\ Len(dc.measurements) = 4
    /\ Len(go.attributes) >= 1
    /\ Len(go.holes) = 2

\* C30: for every batch, the hole chunks that create_dc_hole_chunks computes
\* from the per-hole row counts equal the chunks that holes_table computes from
\* the Measurements table built from the same batch, also when a hole has no
\* row (refuted: holes_table has no chunk for such a hole)
C30_IndexersAgree ==
    (Built /\ op = "holes_table") => holes = create_dc_hole_chunks(data)

\* the records of the files in file order, then in-file order
Encountered == Flatten([i \in 1..Len(out.filepaths) |-> out.filepaths[i].cpts])

\* the identifier of a record: bro_id when it has one, else alias
IdOf(cpt_data) == IF cpt_data.bro_id # "" THEN cpt_data.bro_id ELSE cpt_data.alias

\* every file reads, and every record has the required columns and an identifier
AllReadable ==
    /\ \A i \in 1..Len(out.filepaths) :
           /\ out.filepaths[i].exists
           /\ out.filepaths[i].raises = "none"
           /\ out.filepaths[i].suffix \in {".gef", ".GEF", ".xml", ".XML"}
    /\ \A k \in 1..Len(Encountered) :
           /\ {PEN, CONE} \subseteq Range(Encountered[k].cols)
           /\ IdOf(Encountered[k]) # ""

\* some record has the identifier of an earlier one
Repeated ==
    \E j, k \in 1..Len(Encountered) : j < k /\ IdOf(Encountered[j]) = IdOf(Encountered[k])

C27_NeverRaises ==
    op = "is_gef_cpt" =>
        LET file == out.filepaths[out.asked]
            r == parse_gef_file(file)
        IN
        /\ err = "none"
        /\ pc = "returned"
        /\ out.value \in {<<TRUE>>, <<FALSE>>}
        /\ out.value = <<TRUE>> <=> (r.exc = "none" /\ r.cpts # <<>>)


=============================================================================
